---- MODULE Spec2Model ----
(***************************************************************************)
(* Guardian OS installer: device identity and claim reconciliation.        *)
(*                                                                         *)
(* The model covers the Calamares job modules guardian_wifi.run(),         *)
(* guardian_auth.run() and guardian_claim.run() (calamares/modules-impl),  *)
(* the Nobara variant's authenticate_parent() and run()                    *)
(* (nobara/calamares-modules/guardianauth), the installer's process-scoped *)
(* global storage and the files the modules leave behind                   *)
(* (/tmp/guardian_parent_token, <root>/etc/guardian files) with their      *)
(* permission bits.                                                        *)
(*                                                                         *)
(* Every handler is one atomic action.  The backend's answer, the values   *)
(* the UI put into global storage and a fresh uuid4 are inputs of the      *)
(* action drawn from small sets.  A job may also end at one of its file    *)
(* system calls (OSError, or the installer is killed); the files are then  *)
(* left as they were at that call.                                         *)
(***************************************************************************)
EXTENDS Integers, Sequences, FiniteSets, TLC

(***************************************************************************)
(* Bounds and value universes                                              *)
(***************************************************************************)

\* What `date -u +%Y-%m-%dT%H:%M:%SZ` may print when a run reads the clock.
Timestamps == {"2026-01-01T00:00:00Z"}

\* Python's None, as a value of global storage, of a JSON body or of a record.
None == "<None>"

\* A key that a JSON body does not carry (dict.get falls back to its default).
Missing == "<missing>"

\* "not x" in Python for the string-or-None values used here.
Falsy(x) == x \in {None, ""}

\* What the UI may have put under guardian_auth_email / guardian_auth_password.
UiEmails == {None, "parent@example.com"}

UiPasswords == {None, "hunter2"}

UiAuthModes == {"login", "register"}

\* The bearer token the backend hands out; it carries a trailing newline,
\* which f.read().strip() removes when the handoff file is read back.
ParentTokens == {"tokB\n"}

DeviceJwts == {"jwtA", "jwtB"}

DeviceCodes == {"XYZ-123", "XYZ-456"}

HttpStatuses == {200, 500}

Uuids == {"uuid-1", "uuid-2"}

\* File modes: what os.chmod(path, 0o600) leaves, and what open(path, "w")
\* creates a new file with (0o666 masked by the installer's umask 0o022).
OwnerOnly == "0o600"

CreateMode == "0o644"

\* supabase.env right after open(env_file, "w"): zero bytes, not even the
\* fixed endpoint lines.
Truncated == "<truncated>"

(***************************************************************************)
(* State                                                                   *)
(***************************************************************************)
VARIABLES
  installer,          \* which installer's job modules run on this machine
  gs,                 \* libcalamares.globalstorage of the running installer
  environ,            \* os.environ of the installer process
  hw,                 \* which fingerprint sources the machine offers
  tmp_token,          \* /tmp/guardian_parent_token
  supabase_env,       \* <root>/etc/guardian/supabase.env
  device_code_file,   \* <root>/etc/guardian/device_code
  pending_activation, \* <root>/etc/guardian/pending_activation.json
  device_json,        \* <root>/etc/guardian/device.json
  mode,               \* the permission bits of each of these files
  last                \* what the most recent handler did and returned

vars == <<installer, gs, environ, hw, tmp_token, supabase_env, device_code_file,
          pending_activation, device_json, mode, last>>

(***************************************************************************)
(* Python helpers                                                          *)
(***************************************************************************)

\* dict.get(key, default) on a parsed JSON body.
dict_get(value, default) == IF value = Missing THEN default ELSE value

\* os.environ.get(key, default).
environ_get(key, default) == IF environ[key] = None THEN default ELSE environ[key]

\* Content of /etc/machine-id, with the newline the file ends in.
MachineIdFile == "0123456789abcdef\n"

CpuModelName == "Intel(R) Core(TM) i5-8250U"

\* link/ether addresses in the order `ip link show` lists them.
MacAddresses == <<"52:54:00:12:34:56", "52:54:00:ab:cd:ef">>

\* str.strip() on the strings of the model that carry surrounding whitespace.
strip(s) ==
  CASE s = MachineIdFile -> "0123456789abcdef"
    [] s = "tokB\n"      -> "tokB"
    [] OTHER             -> s

\* sep.join(components): the components with the separator between them.
RECURSIVE join(_, _)
join(sep, components) ==
  IF Len(components) = 0 THEN <<>>
  ELSE IF Len(components) = 1 THEN <<components[1]>>
  ELSE <<components[1], sep>> \o join(sep, Tail(components))

\* hashlib.sha256(data).hexdigest(), taken as collision free: the digest is
\* named by the data it was computed over.
sha256_hexdigest(data) == [sha256_of |-> data]

NoFingerprint == [prefix |-> "", hexdigest |-> [sha256_of |-> <<>>]]

\* Variant of get_device_fingerprint_from: derivation gives up when no source
\* is available.
get_device_fingerprint_or_fail(sources, uuid) ==
  LET cpu == IF sources.cpuinfo THEN <<CpuModelName>> ELSE <<>>
      mac == IF sources.ip_link THEN MacAddresses ELSE <<>>
      mid == IF sources.machine_id THEN <<strip(MachineIdFile)>> ELSE <<uuid>>
      components == cpu \o mac \o mid
      fingerprint_data == join("|", components)
  IN IF sources.cpuinfo \/ sources.ip_link \/ sources.machine_id
     THEN [prefix |-> "sha256:", hexdigest |-> sha256_hexdigest(fingerprint_data)]
     ELSE NoFingerprint

\* guardian_claim.get_device_fingerprint() on a machine that offers the given
\* sources; uuid is what uuid.uuid4() yields if it is called.  A source whose
\* read fails is skipped by its try/except.
get_device_fingerprint_from(sources, uuid) ==
  LET cpu == IF sources.cpuinfo THEN <<CpuModelName>> ELSE <<>>
      mac == IF sources.ip_link THEN MacAddresses ELSE <<>>
      mid == IF sources.machine_id THEN <<strip(MachineIdFile)>> ELSE <<uuid>>
      components == cpu \o mac \o mid
      fingerprint_data == join("|", components)
  IN [prefix |-> "sha256:", hexdigest |-> sha256_hexdigest(fingerprint_data)]

\* guardian_claim.get_device_fingerprint() on this machine.
get_device_fingerprint(uuid) == get_device_fingerprint_from(hw, uuid)

(***************************************************************************)
(* Return values, requests and files                                       *)
(***************************************************************************)

\* A job's return value: None (success) or a (title, detail) pair.  The detail
\* f"Server returned {status}" is the text and the status it formats.
Success == [ok |-> TRUE, title |-> "", detail |-> "", status |-> 0]

Failure(title, detail, status) ==
  [ok |-> FALSE, title |-> title, detail |-> detail, status |-> status]

\* The job did not return: an exception left run().
Raised(exception) ==
  [ok |-> FALSE, title |-> None, detail |-> exception, status |-> 0]

NoRequest ==
  [sent |-> FALSE, device_fingerprint |-> NoFingerprint, parent_email |-> None,
   bearer |-> None]

NoResult == [success |-> FALSE, token |-> None, error |-> ""]

Absent == [exists |-> FALSE, content |-> ""]

NoPending ==
  [exists |-> FALSE, email |-> None, fingerprint |-> NoFingerprint,
   timestamp |-> None]

\* pending_activation.json right after open(pending_file, "w"): zero bytes.
TruncatedPending == [NoPending EXCEPT !.exists = TRUE]

NoModes ==
  [tmp_token |-> None, supabase_env |-> None, device_code_file |-> None,
   pending_activation |-> None, device_json |-> None]

SUPABASE_URL == "https://gkyspvcafyttfhyjryyk.supabase.co"

\* The config dict guardianauth.run() dumps into device.json.
NoConfig ==
  [exists |-> FALSE, family_id |-> None, child_id |-> None, child_name |-> None,
   parent_email |-> None, registered_at |-> None, api_url |-> None]

AUTH_LOGIN_URL == "functions/v1/auth-login"

AUTH_REGISTER_URL == "functions/v1/auth-register"

\* guardian_claim.write_supabase_env(): the file is the fixed endpoint lines
\* followed by the line GUARDIAN_DEVICE_JWT=<device_jwt>; the file is kept as
\* the value of that line.
write_supabase_env(device_jwt) == [exists |-> TRUE, content |-> device_jwt]

\* open(path, "w"); f.write(text)
write_file(text) == [exists |-> TRUE, content |-> text]

\* json.dump(pending_data, f) in guardian_claim.run()
pending_data(email, fingerprint, timestamp) ==
  [exists |-> TRUE, email |-> email, fingerprint |-> fingerprint,
   timestamp |-> timestamp]

\* A fresh libcalamares.globalstorage.
EmptyStorage ==
  [guardian_offline_mode  |-> FALSE,
   guardian_pending_email |-> None,
   guardian_pending_auth  |-> FALSE,
   guardian_parent_token  |-> None,
   guardian_parent_email  |-> None,
   guardian_device_jwt    |-> None,
   guardian_device_code   |-> None,
   guardian_network_configured |-> FALSE]

\* The record of the most recent job: which one ran, the branch it took, what
\* it returned, and for authenticate_parent() the dict it returned.
Idle == [op |-> "init", out |-> "", ret |-> Success, result |-> NoResult]

\* The storage and the files a job reads and writes, as one value.
Current ==
  [gs |-> gs, tmp_token |-> tmp_token, supabase_env |-> supabase_env,
   device_code_file |-> device_code_file,
   pending_activation |-> pending_activation, device_json |-> device_json,
   mode |-> mode]

\* open(path, "w") on file f of state s: the file is created with CreateMode
\* if it is not there, and truncated (empty) if it is, keeping its mode.
open_w(s, f, empty) ==
  [s EXCEPT ![f] = empty,
            !.mode[f] = IF s[f].exists THEN @ ELSE CreateMode]

\* with open(path, "w") as f: f.write(...), followed by os.chmod(path, 0o600).
\* s is the state when all three calls are done; faults are the states the
\* files are left in when the run ends at open(), at the write or at chmod()
\* (the call raises OSError, or the installer is killed there).
with_open_w(s, f, empty, full) ==
  LET opened == open_w(s, f, empty)
      written == [opened EXCEPT ![f] = full]
      restricted == [written EXCEPT !.mode[f] = OwnerOnly]
  IN [faults |-> <<s, opened, written>>, s |-> restricted]

\* write_supabase_env(root_mount, device_jwt) applied to state s.
write_supabase_env_in(s, device_jwt) ==
  with_open_w(s, "supabase_env", [exists |-> TRUE, content |-> Truncated],
              write_supabase_env(device_jwt))

(***************************************************************************)
(* What the backend may answer                                             *)
(***************************************************************************)

\* A response body that is not JSON.
NotJson == "<not json>"

\* What response.json() raises on a body that is not JSON: the requests
\* library's JSONDecodeError, which is a RequestException from requests 2.27
\* on and a plain ValueError before.
JsonErrors == {"RequestException", "ValueError"}

\* requests.post() in guardian_auth.run(): a RequestException, or a response.
\* json_error is what response.json() raises if the body is not JSON.
AuthResponses ==
  {[kind |-> "exception", status |-> 0, parent_access_token |-> Missing,
    json_error |-> ""]}
  \cup {[kind |-> "http", status |-> st, parent_access_token |-> Missing,
         json_error |-> ""] : st \in HttpStatuses}
  \cup {[kind |-> "http", status |-> 200, parent_access_token |-> t,
         json_error |-> ""] : t \in ParentTokens}
  \cup {[kind |-> "http", status |-> 200, parent_access_token |-> NotJson,
         json_error |-> e] : e \in JsonErrors}

\* The JSON bodies of a 200 answer of bind-device.
ClaimBodies ==
  {<<"jwtA", "XYZ-123">>, <<"jwtB", "XYZ-456">>, <<Missing, "XYZ-123">>,
   <<"jwtA", Missing>>, <<Missing, Missing>>}

\* requests.post() in guardian_claim.run().
ClaimResponses ==
  {[kind |-> "exception", status |-> 0, device_jwt |-> Missing,
    device_code |-> Missing]}
  \cup {[kind |-> "http", status |-> st, device_jwt |-> Missing,
         device_code |-> Missing] : st \in HttpStatuses \ {200}}
  \cup {[kind |-> "http", status |-> 200, device_jwt |-> b[1],
         device_code |-> b[2]] : b \in ClaimBodies}

\* urllib.request.urlopen() in authenticate_parent().
TokenResponses ==
  {[kind |-> "exception", status |-> 0, access_token |-> Missing]}
  \cup {[kind |-> "http", status |-> st, access_token |-> Missing] :
          st \in HttpStatuses}
  \cup {[kind |-> "http", status |-> 200, access_token |-> t] :
          t \in ParentTokens}

(***************************************************************************)
(* guardian_auth.run()                                                     *)
(***************************************************************************)

\* The effect of guardian_auth.run() in state s when the UI stored auth_mode,
\* ui_email and ui_password and the backend answers resp to the request, if
\* one is made: the new state (s), what the job returns (ret), the branch
\* taken (out), whether a request was made (http) and to which URL.
guardian_auth_run(s, auth_mode, ui_email, ui_password, resp) ==
  LET email == IF Falsy(ui_email)
               THEN environ_get("GUARDIAN_TEST_EMAIL", "") ELSE ui_email
      password == IF Falsy(ui_password)
                  THEN environ_get("GUARDIAN_TEST_PASSWORD", "") ELSE ui_password
      url == IF auth_mode = "register" THEN AUTH_REGISTER_URL ELSE AUTH_LOGIN_URL
      parent_token == dict_get(resp.parent_access_token, None)
      offline == [s EXCEPT !.gs.guardian_offline_mode = TRUE,
                           !.gs.guardian_pending_email = email,
                           !.gs.guardian_pending_auth = TRUE]
      stored == [s EXCEPT !.gs.guardian_parent_token = parent_token,
                          !.gs.guardian_parent_email = email]
      handoff == with_open_w(stored, "tmp_token", write_file(""),
                             write_file(parent_token))
  IN
  IF Falsy(email) \/ Falsy(password) THEN
    [s |-> [s EXCEPT !.gs.guardian_offline_mode = TRUE],
     ret |-> Success, out |-> "unavailable", http |-> FALSE, url |-> "",
     faults |-> <<>>]
  ELSE IF resp.kind = "exception" THEN
    [s |-> offline,
     ret |-> Success, out |-> "network_error", http |-> TRUE, url |-> url,
     faults |-> <<>>]
  ELSE IF resp.status = 200 THEN
    IF resp.parent_access_token = NotJson THEN
      \* response.json() raises
      IF resp.json_error = "RequestException" THEN
        [s |-> offline,
         ret |-> Success, out |-> "network_error", http |-> TRUE, url |-> url,
         faults |-> <<>>]
      ELSE
        [s |-> s,
         ret |-> Raised("ValueError"), out |-> "raised", http |-> TRUE,
         url |-> url, faults |-> <<>>]
    ELSE IF ~Falsy(parent_token) THEN
      [s |-> handoff.s,
       ret |-> Success, out |-> "authenticated", http |-> TRUE, url |-> url,
       faults |-> handoff.faults]
    ELSE
      [s |-> s,
       ret |-> Failure("Authentication failed", "Invalid response from server", 0),
       out |-> "missing_token", http |-> TRUE, url |-> url, faults |-> <<>>]
  ELSE
    [s |-> s,
     ret |-> Failure("Authentication failed", "Server returned", resp.status),
     out |-> "server_error", http |-> TRUE, url |-> url, faults |-> <<>>]

(***************************************************************************)
(* guardian_claim.run()                                                    *)
(***************************************************************************)

\* Variant of claim_offline: the empty supabase.env is not written.
claim_offline_skips_env(s, device_fingerprint, timestamp) ==
  LET p == with_open_w(s, "pending_activation", TruncatedPending,
                       pending_data(s.gs.guardian_pending_email,
                                    device_fingerprint, timestamp))
  IN [s |-> p.s, ret |-> Success, out |-> "offline", req |-> NoRequest,
      faults |-> p.faults]

\* The offline branch: a pending record and an empty supabase.env.
claim_offline(s, device_fingerprint, timestamp) ==
  LET p == with_open_w(s, "pending_activation", TruncatedPending,
                       pending_data(s.gs.guardian_pending_email,
                                    device_fingerprint, timestamp))
      e == write_supabase_env_in(p.s, "")
  IN [s |-> e.s, ret |-> Success, out |-> "offline", req |-> NoRequest,
      faults |-> p.faults \o e.faults]

\* Variant of claim_no_token: the attempt is queued like a network error.
claim_no_token_queues(s) ==
  LET p == with_open_w(s, "pending_activation", TruncatedPending,
                       pending_data(s.gs.guardian_pending_email, NoFingerprint,
                                    None))
      e == write_supabase_env_in(p.s, "")
  IN [s |-> e.s,
      ret |-> Failure("Device claim failed", "Authentication required", 0),
      out |-> "no_token", req |-> NoRequest, faults |-> <<>>]

\* No token in global storage nor in the handoff file.
claim_no_token(s) ==
  [s |-> s,
   ret |-> Failure("Device claim failed", "Authentication required", 0),
   out |-> "no_token", req |-> NoRequest, faults |-> <<>>]

\* Variant of claim_network_error: the email is taken from
\* guardian_pending_email, as in the offline branch.
claim_network_error_pending_email(s, req, timestamp) ==
  LET p == with_open_w(s, "pending_activation", TruncatedPending,
                       pending_data(s.gs.guardian_pending_email,
                                    req.device_fingerprint, timestamp))
      e == write_supabase_env_in(p.s, "")
  IN [s |-> e.s, ret |-> Success, out |-> "network_error", req |-> req,
      faults |-> p.faults \o e.faults]

\* The request ended in a requests.exceptions.RequestException.
claim_network_error(s, req, timestamp) ==
  LET p == with_open_w(s, "pending_activation", TruncatedPending,
                       pending_data(req.parent_email, req.device_fingerprint,
                                    timestamp))
      e == write_supabase_env_in(p.s, "")
  IN [s |-> e.s, ret |-> Success, out |-> "network_error", req |-> req,
      faults |-> p.faults \o e.faults]

\* Variant of claim_status_200: the bearer token of the request is kept in
\* supabase.env in place of the device credential.
claim_status_200_persists_bearer(s, req, resp) ==
  LET device_jwt == dict_get(resp.device_jwt, "")
      device_code == dict_get(resp.device_code, "")
      e == write_supabase_env_in(s, req.bearer)
      c == with_open_w(e.s, "device_code_file", write_file(""),
                       write_file(device_code))
  IN [s |-> [c.s EXCEPT !.gs.guardian_device_jwt = device_jwt,
                        !.gs.guardian_device_code = device_code],
      ret |-> Success, out |-> "status_200", req |-> req,
      faults |-> e.faults \o c.faults]

\* The backend answered 200.
claim_status_200(s, req, resp) ==
  LET device_jwt == dict_get(resp.device_jwt, "")
      device_code == dict_get(resp.device_code, "")
      e == write_supabase_env_in(s, device_jwt)
      c == with_open_w(e.s, "device_code_file", write_file(""),
                       write_file(device_code))
  IN [s |-> [c.s EXCEPT !.gs.guardian_device_jwt = device_jwt,
                        !.gs.guardian_device_code = device_code],
      ret |-> Success, out |-> "status_200", req |-> req,
      faults |-> e.faults \o c.faults]

\* Variant of claim_status_other: the attempt is queued like a network error.
claim_status_other_queues(s, req, resp) ==
  LET p == with_open_w(s, "pending_activation", TruncatedPending,
                       pending_data(req.parent_email, req.device_fingerprint,
                                    None))
      e == write_supabase_env_in(p.s, "")
  IN [s |-> e.s,
      ret |-> Failure("Device claim failed", "Server returned", resp.status),
      out |-> "server_error", req |-> req, faults |-> <<>>]

\* The backend answered with another status.
claim_status_other(s, req, resp) ==
  [s |-> s,
   ret |-> Failure("Device claim failed", "Server returned", resp.status),
   out |-> "server_error", req |-> req, faults |-> <<>>]

\* Variant of claim_parent_token: the handoff file is read first.
claim_parent_token_file_first(s) ==
  IF s.tmp_token.exists
  THEN strip(s.tmp_token.content)
  ELSE s.gs.guardian_parent_token

\* The token the claim is made with: global storage first, then the handoff
\* file.
claim_parent_token(s) ==
  IF Falsy(s.gs.guardian_parent_token) /\ s.tmp_token.exists
  THEN strip(s.tmp_token.content)
  ELSE s.gs.guardian_parent_token

claim_parent_email(s) ==
  IF Falsy(s.gs.guardian_parent_email)
  THEN environ_get("GUARDIAN_TEST_EMAIL", "unknown@example.com")
  ELSE s.gs.guardian_parent_email

\* The JSON body and the Authorization header of the bind-device request.
claim_request(device_fingerprint, parent_email, parent_token) ==
  [sent |-> TRUE, device_fingerprint |-> device_fingerprint,
   parent_email |-> parent_email, bearer |-> parent_token]

\* The effect of guardian_claim.run() in state s when uuid.uuid4() would yield
\* uuid, `date -u` prints timestamp and the backend answers resp to the
\* request, if one is made: the new state (s), what the job returns (ret), the
\* branch taken (out) and the request made (req).
guardian_claim_run(s, uuid, timestamp, resp) ==
  LET device_fingerprint == get_device_fingerprint(uuid)
      parent_token == claim_parent_token(s)
      req == claim_request(device_fingerprint, claim_parent_email(s),
                           parent_token)
  IN
  IF s.gs.guardian_offline_mode THEN
    claim_offline(s, device_fingerprint, timestamp)
  ELSE IF Falsy(parent_token) THEN claim_no_token(s)
  ELSE IF resp.kind = "exception" THEN claim_network_error(s, req, timestamp)
  ELSE IF resp.status = 200 THEN claim_status_200(s, req, resp)
  ELSE claim_status_other(s, req, resp)

(***************************************************************************)
(* guardian_wifi.run()                                                     *)
(***************************************************************************)

\* What `nmcli networking connectivity check` may do: print "full", print
\* another state, or fail (no nmcli, or no answer within 5 seconds).
Probes == {"full", "none", "raised"}

\* Variant of guardian_wifi_run: without full connectivity the job marks the
\* installation for offline activation.
guardian_wifi_run_goes_offline(s, probe) ==
  [s |-> [s EXCEPT !.gs.guardian_network_configured = TRUE,
                   !.gs.guardian_offline_mode = (@ \/ probe # "full")],
   ret |-> Success]

\* The effect of guardian_wifi.run() in state s when the probe does probe.
guardian_wifi_run(s, probe) ==
  IF probe = "full" THEN
    [s |-> [s EXCEPT !.gs.guardian_network_configured = TRUE], ret |-> Success]
  ELSE
    \* "raised" is caught and logged; both ways on to the same insert
    [s |-> [s EXCEPT !.gs.guardian_network_configured = TRUE], ret |-> Success]

(***************************************************************************)
(* guardianauth.authenticate_parent()                                      *)
(***************************************************************************)

\* The dict authenticate_parent(email, password) returns when urlopen meets
\* resp: urlopen raises HTTPError for a status that is not a success, and any
\* other failure is an Exception.
authenticate_parent(email, password, resp) ==
  IF resp.kind = "exception" THEN
    [success |-> FALSE, token |-> None, error |-> "URLError"]
  ELSE IF resp.status # 200 THEN
    [success |-> FALSE, token |-> None, error |-> "HTTPError"]
  ELSE
    [success |-> TRUE, token |-> dict_get(resp.access_token, None), error |-> ""]

\* What the Nobara installer's pages may have stored in global storage when
\* the guardianauth job runs.
UserIds == {None, "user-1"}

FamilyIds == {None, "family-1"}

\* guardian_selected_child when no child was selected.
NoChild == [id |-> None, name |-> None]

SelectedChildren == {NoChild, [id |-> "child-1", name |-> "Alice"]}

RootMountPoints == {None, "/mnt/target"}

\* The effect of guardianauth.run() in state s when global storage holds the
\* given values.
guardianauth_run(s, auth_token, user_id, parent_email, selected_child, family_id, root_mount) ==
  LET config == [exists |-> TRUE,
                 family_id |-> family_id,
                 child_id |-> selected_child.id,
                 child_name |-> selected_child.name,
                 parent_email |-> parent_email,
                 registered_at |-> None,
                 api_url |-> SUPABASE_URL]
      w == with_open_w(s, "device_json", [NoConfig EXCEPT !.exists = TRUE],
                       config)
  IN
  IF Falsy(auth_token) \/ Falsy(user_id) \/ selected_child = NoChild
       \/ Falsy(family_id) THEN
    [s |-> s,
     ret |-> Failure("Guardian authentication incomplete",
                     "Please complete parent authentication and child selection.",
                     0)]
  ELSE IF Falsy(root_mount) THEN [s |-> s, ret |-> Success]
  ELSE [s |-> w.s, ret |-> Success]

(***************************************************************************)
(* Actions                                                                 *)
(***************************************************************************)

\* The installations: which installer runs (the Calamares job modules of
\* calamares/modules-impl, or the Nobara modules), which fingerprint sources
\* the machine offers and whether GUARDIAN_TEST_EMAIL is exported.
Machines ==
  LET unset == [GUARDIAN_TEST_EMAIL |-> None, GUARDIAN_TEST_PASSWORD |-> None]
      exported == [unset EXCEPT !.GUARDIAN_TEST_EMAIL = "test@example.com"]
      full == [cpuinfo |-> TRUE, ip_link |-> TRUE, machine_id |-> TRUE]
      bare == [cpuinfo |-> FALSE, ip_link |-> FALSE, machine_id |-> FALSE]
  IN {[installer |-> "calamares", environ |-> unset, hw |-> full],
      [installer |-> "calamares", environ |-> exported, hw |-> full],
      [installer |-> "calamares", environ |-> unset, hw |-> bare],
      [installer |-> "nobara", environ |-> unset, hw |-> full]}

Init ==
  /\ gs = EmptyStorage
  /\ \E m \in Machines :
       installer = m.installer /\ environ = m.environ /\ hw = m.hw
  /\ tmp_token = Absent
  /\ supabase_env = Absent
  /\ device_code_file = Absent
  /\ pending_activation = NoPending
  /\ device_json = NoConfig
  /\ mode = NoModes
  /\ last = Idle

\* No job of this installation has been interrupted.  An exception that
\* leaves a job's run() is fatal to the installation, and a killed installer
\* is gone: the model follows an installation up to that point and keeps the
\* files as the interrupted job left them.
Running == last.out # "interrupted"

\* The installer runs the guardian_wifi job.
WifiRun ==
  /\ installer = "calamares"
  /\ Running
  /\ \E probe \in Probes :
       LET r == guardian_wifi_run(Current, probe)
       IN /\ gs' = r.s.gs
          /\ last' = [op |-> "wifi", out |-> "checked", ret |-> r.ret,
                      result |-> NoResult]
  /\ UNCHANGED <<installer, environ, hw, tmp_token, supabase_env,
                 device_code_file, pending_activation, device_json, mode>>

\* The answers that matter to guardian_auth.run(): the request is made only
\* with both credentials at hand.
AuthAnswers(ui_email, ui_password) ==
  IF guardian_auth_run(Current, "login", ui_email, ui_password,
                       CHOOSE r \in AuthResponses : TRUE).http
  THEN AuthResponses
  ELSE {CHOOSE r \in AuthResponses : TRUE}

\* The installer runs the guardian_auth job.
AuthRun ==
  /\ installer = "calamares"
  /\ Running
  /\ \E auth_mode \in UiAuthModes, ui_email \in UiEmails,
        ui_password \in UiPasswords :
       \E resp \in AuthAnswers(ui_email, ui_password) :
         LET r == guardian_auth_run(Current, auth_mode, ui_email, ui_password,
                                    resp)
         IN /\ gs' = r.s.gs
            /\ tmp_token' = r.s.tmp_token
            /\ mode' = r.s.mode
            /\ last' = [op |-> "auth", out |-> r.out, ret |-> r.ret,
                        result |-> NoResult]
  /\ UNCHANGED <<installer, environ, hw, supabase_env, device_code_file,
                 pending_activation, device_json>>

\* The guardian_auth job ends at one of its file system calls: the call raises
\* OSError, which nothing in run() catches, or the installer is killed there.
AuthRunInterrupted ==
  /\ installer = "calamares"
  /\ Running
  /\ \E auth_mode \in UiAuthModes, ui_email \in UiEmails,
        ui_password \in UiPasswords :
       \E resp \in AuthAnswers(ui_email, ui_password) :
         LET r == guardian_auth_run(Current, auth_mode, ui_email, ui_password,
                                    resp)
         IN \E k \in 1..Len(r.faults) :
              /\ gs' = r.faults[k].gs
              /\ tmp_token' = r.faults[k].tmp_token
              /\ mode' = r.faults[k].mode
              /\ last' = [op |-> "auth", out |-> "interrupted",
                          ret |-> Raised("OSError"), result |-> NoResult]
  /\ UNCHANGED <<installer, environ, hw, supabase_env, device_code_file,
                 pending_activation, device_json>>

\* uuid.uuid4() is called only when /etc/machine-id cannot be read.
UuidDraws == IF hw.machine_id THEN {CHOOSE u \in Uuids : TRUE} ELSE Uuids

\* The answers that matter to guardian_claim.run() in state s: the request is
\* made only online and with a token.
ClaimAnswers(s) ==
  IF s.gs.guardian_offline_mode \/ Falsy(claim_parent_token(s))
  THEN {CHOOSE r \in ClaimResponses : TRUE}
  ELSE ClaimResponses

\* One run of the guardian_claim job with the given draws.
ClaimStep(uuid, timestamp, resp) ==
  LET r == guardian_claim_run(Current, uuid, timestamp, resp)
  IN /\ gs' = r.s.gs
     /\ tmp_token' = r.s.tmp_token
     /\ supabase_env' = r.s.supabase_env
     /\ device_code_file' = r.s.device_code_file
     /\ pending_activation' = r.s.pending_activation
     /\ mode' = r.s.mode
     /\ last' = [op |-> "claim", out |-> r.out, ret |-> r.ret,
                 result |-> NoResult]
     /\ UNCHANGED <<installer, environ, hw, device_json>>

\* The installer runs the guardian_claim job.
ClaimRun ==
  /\ installer = "calamares"
  /\ Running
  /\ \E uuid \in UuidDraws, timestamp \in Timestamps,
        resp \in ClaimAnswers(Current) :
       ClaimStep(uuid, timestamp, resp)

\* The guardian_claim job ends at one of its file system calls: the call
\* raises OSError, which nothing in run() catches, or the installer is killed
\* there.  Global storage is as the job found it.
ClaimRunInterrupted ==
  /\ installer = "calamares"
  /\ Running
  /\ \E uuid \in UuidDraws, timestamp \in Timestamps,
        resp \in ClaimAnswers(Current) :
       LET r == guardian_claim_run(Current, uuid, timestamp, resp)
       IN \E k \in 1..Len(r.faults) :
            /\ supabase_env' = r.faults[k].supabase_env
            /\ device_code_file' = r.faults[k].device_code_file
            /\ pending_activation' = r.faults[k].pending_activation
            /\ mode' = r.faults[k].mode
            /\ last' = [op |-> "claim", out |-> "interrupted",
                        ret |-> Raised("OSError"), result |-> NoResult]
  /\ UNCHANGED <<installer, gs, environ, hw, tmp_token, device_json>>

\* The Nobara installer's login page calls authenticate_parent().
AuthenticateParent ==
  /\ installer = "nobara"
  /\ \E email \in UiEmails \ {None}, password \in UiPasswords \ {None},
        resp \in TokenResponses :
       last' = [op |-> "authenticate_parent", out |-> "", ret |-> Success,
                result |-> authenticate_parent(email, password, resp)]
  /\ UNCHANGED <<installer, gs, environ, hw, tmp_token, supabase_env,
                 device_code_file, pending_activation, device_json, mode>>

\* The Nobara installer runs the guardianauth job.
GuardianauthRun ==
  /\ installer = "nobara"
  /\ \E auth_token \in ParentTokens \cup {None}, user_id \in UserIds,
        parent_email \in UiEmails, selected_child \in SelectedChildren,
        family_id \in FamilyIds, root_mount \in RootMountPoints :
       LET r == guardianauth_run(Current, auth_token, user_id, parent_email,
                                 selected_child, family_id, root_mount)
       IN /\ device_json' = r.s.device_json
          /\ mode' = r.s.mode
          /\ last' = [op |-> "guardianauth", out |-> "", ret |-> r.ret,
                      result |-> NoResult]
  /\ UNCHANGED <<installer, gs, environ, hw, tmp_token, supabase_env,
                 device_code_file, pending_activation>>

\* The installer process ends and a later process starts: global storage is
\* process memory and starts empty, the files under the installed root stay,
\* and /tmp stays unless the machine rebooted in between.
Restart ==
  \E rebooted \in BOOLEAN :
    /\ Running
    /\ gs' = EmptyStorage
    /\ tmp_token' = IF rebooted THEN Absent ELSE tmp_token
    /\ mode' = IF rebooted THEN [mode EXCEPT !.tmp_token = None] ELSE mode
    /\ last' = [Idle EXCEPT !.op = "restart"]
    /\ UNCHANGED <<installer, environ, hw, supabase_env, device_code_file,
                   pending_activation, device_json>>

Next ==
  \/ WifiRun
  \/ AuthRunInterrupted
  \/ AuthRun
  \/ ClaimRun
  \/ ClaimRunInterrupted
  \/ AuthenticateParent
  \/ GuardianauthRun
  \/ Restart

Spec == Init /\ [][Next]_vars

\* bind-device answers 200 with both device_jwt and device_code.
GoodClaimResponses ==
  {r \in ClaimResponses :
     r.kind = "http" /\ r.status = 200 /\ r.device_jwt # Missing
       /\ r.device_code # Missing}

\* A run of the guardian_claim job while the backend is reachable and answers
\* 200 with both fields.
GoodClaimRun ==
  /\ installer = "calamares"
  /\ Running
  /\ \E uuid \in UuidDraws, timestamp \in Timestamps,
        resp \in GoodClaimResponses :
       ClaimStep(uuid, timestamp, resp)

\* Claim runs keep being attempted, and again and again one of them is made
\* while the backend is reachable and answers 200 with both fields.
FairSpec == Spec /\ WF_vars(ClaimRun) /\ SF_vars(GoodClaimRun)

(***************************************************************************)
(* The reconciliation state, read off the persisted artifacts              *)
(***************************************************************************)

\* supabase.env holds a non-empty device credential.
IsClaimed(s) ==
  s.supabase_env.exists /\ s.supabase_env.content \notin {"", Truncated}

\* A pending record is on disk and supabase.env holds an empty credential.
IsClaimPending(s) ==
  /\ s.pending_activation.exists
  /\ s.supabase_env.exists
  /\ s.supabase_env.content = ""

IsUnclaimed(s) == ~IsClaimed(s) /\ ~IsClaimPending(s)

Claimed == IsClaimed(Current)

ClaimPending == IsClaimPending(Current)

Unclaimed == IsUnclaimed(Current)

TypeOK ==
  /\ gs.guardian_offline_mode \in BOOLEAN
  /\ supabase_env.content \in DeviceJwts \cup {"", Truncated}
  /\ \A f \in DOMAIN mode : mode[f] \in {None, CreateMode, OwnerOnly}
  /\ device_code_file.content \in DeviceCodes \cup {""}

(***************************************************************************)
(* Claims                                                                  *)
(***************************************************************************)

\* The draws of one guardian_claim run, whatever the backend answers.
ClaimDraws == UuidDraws \X Timestamps \X ClaimResponses

\* guardian_claim.run() in the current state with the draws d.
ClaimOutcome(d) == guardian_claim_run(Current, d[1], d[2], d[3])

\* A step that is a run of the guardian_claim job.
IsClaimRun == last'.op = "claim"

\* On a machine whose /etc/machine-id is readable every run derives the same
\* fingerprint.
SameFingerprintEveryRun == hw.machine_id

\* The 200 answer the run got carried both fields.
CompleteAnswer ==
  gs'.guardian_device_jwt # "" /\ gs'.guardian_device_code # ""

\* C1: once the device is Claimed, a later guardian_claim.run() whose request
\* reaches the backend with the same fingerprint is a no-op success: the
\* credential in supabase.env and the device_code file are the same after the
\* run as before it, whatever device_jwt/device_code the backend answers.
C1_ExactlyOnceBinding ==
  [][(Claimed /\ device_code_file.content # "" /\ SameFingerprintEveryRun
        /\ IsClaimRun /\ last'.out = "status_200" /\ CompleteAnswer)
       => (last'.ret.ok /\ supabase_env' = supabase_env
             /\ device_code_file' = device_code_file)]_vars

\* C2: if supabase.env holds a non-empty device credential, a later
\* guardian_claim.run() that takes the offline branch or ends in a transport
\* failure leaves GUARDIAN_DEVICE_JWT non-empty and unchanged.
C2_ClaimedNotOverwritten ==
  [][(Claimed /\ IsClaimRun /\ last'.out \in {"offline", "network_error"})
       => (supabase_env'.content # "" /\ supabase_env' = supabase_env)]_vars

\* C3: from any state in which the device is ClaimPending, if claim runs keep
\* being attempted and the backend is eventually reachable and answers 200
\* with both fields (FairSpec), the device eventually reaches Claimed, unless
\* a job of the installation is interrupted first.
C3_EventualBinding == (ClaimPending /\ Running) ~> (Claimed \/ ~Running)

\* C3, second half: the run that turns a ClaimPending device into a Claimed
\* one sends the fingerprint recorded in the pending record.
C3_ReconciledWithRecordedFingerprint ==
  ClaimPending =>
    \A d \in ClaimDraws :
      LET r == ClaimOutcome(d)
      IN (r.req.sent /\ IsClaimed(r.s))
           => r.req.device_fingerprint = pending_activation.fingerprint

\* The draws of one guardian_auth run, whatever the backend answers.
AuthDraws == UiAuthModes \X UiEmails \X UiPasswords \X AuthResponses

\* guardian_auth.run() in the current state with the draws d.
AuthOutcome(d) == guardian_auth_run(Current, d[1], d[2], d[3], d[4])

\* Neither the UI nor the test environment supplies the credential.
NotSupplied(ui_value, key) == Falsy(ui_value) /\ Falsy(environ[key])

\* C4, first half: when email or password is empty, guardian_auth.run() makes
\* no HTTP request, sets offline mode and returns success.
C4_AuthOffline ==
  \A d \in AuthDraws :
    (NotSupplied(d[2], "GUARDIAN_TEST_EMAIL")
       \/ NotSupplied(d[3], "GUARDIAN_TEST_PASSWORD"))
      => LET a == AuthOutcome(d)
         IN /\ ~a.http
            /\ a.out = "unavailable"
            /\ a.ret = Success
            /\ a.s.gs.guardian_offline_mode

\* C4, second half: the guardian_claim.run() that follows such an
\* authentication makes no HTTP request, writes a pending record with the
\* fingerprint and a supabase.env with an empty credential, and does not leave
\* the device Claimed.
C4_ClaimOffline ==
  (last.op = "auth" /\ last.out = "unavailable") =>
    \A d \in ClaimDraws :
      LET c == ClaimOutcome(d)
      IN /\ ~c.req.sent
         /\ c.ret = Success
         /\ c.s.pending_activation.exists
         /\ c.s.pending_activation.fingerprint = get_device_fingerprint(d[1])
         /\ c.s.pending_activation.fingerprint.prefix = "sha256:"
         /\ c.s.supabase_env = [exists |-> TRUE, content |-> ""]
         /\ ~IsClaimed(c.s)

\* C4: offline-first: with an empty email or password neither
\* guardian_auth.run() nor the guardian_claim.run() that follows makes an HTTP
\* request, and the claim run leaves a pending record and an empty
\* credential, never a Claimed device.
C4_OfflineFirst == C4_AuthOffline /\ C4_ClaimOffline

\* The claim job ran in offline mode after an authentication without
\* credentials and left the device ClaimPending.
C4_Witness ==
  /\ last.op = "claim" /\ last.out = "offline"
  /\ gs.guardian_offline_mode /\ gs.guardian_pending_email = None
  /\ ClaimPending

\* A run in the current state sends its request: the job is not in offline
\* mode and a parent token is at hand.
RequestWillBeSent ==
  ~gs.guardian_offline_mode /\ ~Falsy(claim_parent_token(Current))

\* C5: when bind-device answers 200 without device_jwt or without
\* device_code, guardian_claim.run() reports a failure and persists nothing:
\* supabase.env, device_code and the guardian_device_jwt/guardian_device_code
\* values stay as they were.
C5_InvalidResponseRejected ==
  RequestWillBeSent =>
    \A d \in ClaimDraws :
      (d[3].kind = "http" /\ d[3].status = 200
         /\ (d[3].device_jwt = Missing \/ d[3].device_code = Missing))
        => LET r == ClaimOutcome(d)
           IN /\ ~r.ret.ok
              /\ r.s.supabase_env = supabase_env
              /\ r.s.device_code_file = device_code_file
              /\ r.s.gs.guardian_device_jwt = gs.guardian_device_jwt
              /\ r.s.gs.guardian_device_code = gs.guardian_device_code

\* C6: when a parent token is available and the claim request fails at
\* transport level, guardian_claim.run() returns success, the device becomes
\* ClaimPending, the pending record holds the parent email and the
\* fingerprint of the request and a timestamp, and supabase.env holds an
\* empty credential.
C6_TransportFailurePending ==
  RequestWillBeSent =>
    \A d \in ClaimDraws :
      d[3].kind = "exception"
        => LET r == ClaimOutcome(d)
               rec == r.s.pending_activation
           IN /\ r.req.sent
              /\ r.ret = Success
              /\ IsClaimPending(r.s)
              /\ rec.exists
              /\ rec.email = r.req.parent_email
              /\ ~Falsy(rec.email)
              /\ (~Falsy(gs.guardian_parent_email)
                    => rec.email = gs.guardian_parent_email)
              /\ rec.fingerprint = r.req.device_fingerprint
              /\ rec.fingerprint.prefix = "sha256:"
              /\ rec.timestamp = d[2]
              /\ r.s.supabase_env = [exists |-> TRUE, content |-> ""]

\* The claim request of an authenticated parent failed at transport level and
\* the device is ClaimPending with that parent's email on record.
C6_Witness ==
  /\ last.op = "claim" /\ last.out = "network_error"
  /\ ClaimPending
  /\ pending_activation.email = "parent@example.com"
  /\ pending_activation.timestamp \in Timestamps

\* C7: when bind-device answers a status N other than 200,
\* guardian_claim.run() returns ("Device claim failed", "Server returned N")
\* and leaves every artifact and every global storage value as it was,
\* whatever reconciliation state the device is in.
C7_ServerErrorFrame ==
  RequestWillBeSent =>
    \A d \in ClaimDraws :
      (d[3].kind = "http" /\ d[3].status # 200)
        => LET r == ClaimOutcome(d)
           IN /\ r.req.sent
              /\ r.ret = Failure("Device claim failed", "Server returned",
                                 d[3].status)
              /\ r.s = Current

\* A Claimed device on which a later claim run was answered with an error
\* status.
C7_Witness ==
  /\ last.op = "claim" /\ last.out = "server_error"
  /\ last.ret.status = 500
  /\ Claimed
  /\ device_code_file.exists

\* C8: happy path: guardian_auth.run() gets 200 with a parent_access_token and
\* the guardian_claim.run() that follows gets 200 with device_jwt J and
\* device_code C: both return success, the device is Claimed, supabase.env
\* carries GUARDIAN_DEVICE_JWT=J, device_code holds C, and the claim request
\* carried the token the authentication returned as its bearer token.
C8_HappyPath ==
  \A da \in AuthDraws :
    LET a == guardian_auth_run(Current, da[1], da[2], da[3], da[4])
    IN (a.http /\ da[4].kind = "http" /\ da[4].status = 200
          /\ da[4].parent_access_token \in ParentTokens)
         => \A uuid \in UuidDraws, timestamp \in Timestamps,
               resp \in GoodClaimResponses :
              LET c == guardian_claim_run(a.s, uuid, timestamp, resp)
              IN c.req.sent
                   => /\ a.ret = Success
                      /\ c.ret = Success
                      /\ IsClaimed(c.s)
                      /\ c.s.supabase_env =
                           [exists |-> TRUE, content |-> resp.device_jwt]
                      /\ c.s.device_code_file =
                           [exists |-> TRUE, content |-> resp.device_code]
                      /\ c.req.bearer = da[4].parent_access_token

\* After an authentication in this session the claim was answered 200 with
\* both fields and the device is Claimed with them.
C8_Witness ==
  /\ last.op = "claim" /\ last.out = "status_200"
  /\ gs.guardian_parent_token = "tokB\n"
  /\ Claimed
  /\ supabase_env.content = "jwtA"
  /\ device_code_file.content = "XYZ-123"

\* The ways a claim attempt fails: no parent token, a network error, a
\* non-success answer.
FailedAttempts == {"no_token", "network_error", "server_error"}

\* C9 as stated: every failing claim attempt from Unclaimed ends in
\* ClaimPending with pending_activation.json on disk.
C9_EveryFailurePending ==
  [][(Unclaimed /\ IsClaimRun /\ last'.out \in FailedAttempts)
       => (ClaimPending' /\ pending_activation'.exists)]_vars

\* C9 as amended: from Unclaimed, an attempt that fails with a network error
\* ends in ClaimPending with pending_activation.json on disk; an attempt that
\* fails for want of a parent token or on a non-success answer returns a
\* failure and leaves the device Unclaimed and the pending record untouched.
C9_NetworkFailurePending ==
  Unclaimed =>
    \A d \in ClaimDraws :
      LET r == ClaimOutcome(d)
      IN /\ r.out = "network_error"
              => (r.ret = Success /\ IsClaimPending(r.s)
                    /\ r.s.pending_activation.exists)
         /\ r.out \in {"no_token", "server_error"}
              => (~r.ret.ok /\ IsUnclaimed(r.s)
                    /\ r.s.pending_activation = pending_activation)

\* A claim attempt was answered with an error status and the device is still
\* Unclaimed, with no pending record.
C9_Witness ==
  /\ last.op = "claim" /\ last.out = "server_error"
  /\ ~last.ret.ok
  /\ Unclaimed
  /\ ~pending_activation.exists

\* C10: an authentication answer of 200 without a bearer token is never a
\* success: guardian_auth.run() returns a failure and stores no token in
\* global storage or the handoff file, authenticate_parent() does not return
\* success, and no claim request is sent with an empty or absent token.
C10_MissingTokenNotSuccess ==
  /\ \A d \in AuthDraws :
       LET a == AuthOutcome(d)
       IN (a.http /\ d[4].kind = "http" /\ d[4].status = 200
             /\ d[4].parent_access_token = Missing)
            => (~a.ret.ok /\ a.s.gs = gs /\ a.s.tmp_token = tmp_token)
  /\ \A d \in ClaimDraws : LET r == ClaimOutcome(d)
                           IN r.req.sent => ~Falsy(r.req.bearer)
  /\ (last.op = "authenticate_parent" /\ last.result.success)
       => ~Falsy(last.result.token)

\* A job's typed outcome: success (None) or a (title, detail) pair.
IsTypedOutcome(ret) == ret = Success \/ (~ret.ok /\ ret.title # None)

\* C11: guardian_auth.run() always returns a typed outcome: whatever the
\* backend does and whatever happens while the handoff token file is written,
\* the job returns success or a (title, detail) pair and no exception leaves
\* it; after a transport failure it returns success with offline mode set.
C11_AuthNeverRaises ==
  last.op = "auth" =>
    /\ IsTypedOutcome(last.ret)
    /\ last.out = "network_error"
         => (last.ret = Success /\ gs.guardian_offline_mode)

\* pending_activation.json holds what json.dump wrote, not a file cut short.
PendingRecordWritten ==
  pending_activation.exists /\ pending_activation # TruncatedPending

\* C12: every pending-activation record that guardian_claim.run() writes holds
\* a parent email, the device fingerprint and a UTC timestamp, whichever path
\* led to it (no credentials at authentication, network error at
\* authentication, transport failure at claim); the email is never null.
C12_PendingRecordComplete ==
  PendingRecordWritten =>
    /\ ~Falsy(pending_activation.email)
    /\ pending_activation.fingerprint.prefix = "sha256:"
    /\ pending_activation.timestamp \in Timestamps

\* C13: fingerprint stability: on an unchanged machine every call of
\* get_device_fingerprint() returns the same value, also when /etc/machine-id
\* is missing and a random identifier stands in for it: a claim run that
\* writes a pending record writes the fingerprint that the record of an
\* earlier run holds.
C13_FingerprintStable ==
  [][(PendingRecordWritten /\ IsClaimRun
        /\ last'.out \in {"offline", "network_error"})
       => pending_activation'.fingerprint = pending_activation.fingerprint]_vars

\* Every combination of available and unavailable fingerprint sources.
SignalSources == [cpuinfo : BOOLEAN, ip_link : BOOLEAN, machine_id : BOOLEAN]

\* The elements of a sequence.
Range(seq) == {seq[i] : i \in DOMAIN seq}

\* The components the available sources of a machine supply, joined.
AvailableSignals(sources) ==
  join("|", (IF sources.cpuinfo THEN <<CpuModelName>> ELSE <<>>)
              \o (IF sources.ip_link THEN MacAddresses ELSE <<>>)
              \o (IF sources.machine_id THEN <<strip(MachineIdFile)>> ELSE <<>>))

\* C14 as stated: derivation never fails and an unavailable source contributes
\* nothing: the fingerprint in a pending record is "sha256:" and the digest
\* over the signals of the sources that are available on the machine, the
\* machine id among them.
C14_UnavailableContributesNothing ==
  PendingRecordWritten =>
    /\ pending_activation.fingerprint.prefix = "sha256:"
    /\ pending_activation.fingerprint.hexdigest
         = sha256_hexdigest(AvailableSignals(hw))

\* C14 as amended: for every subset of unavailable sources, all of them
\* included, get_device_fingerprint() returns a value with the prefix
\* "sha256:"; unreadable CPU info and a failing MAC enumeration contribute
\* nothing, and a missing machine id is replaced by a random identifier, so
\* the digest is never taken over an empty string.  The fingerprint of a
\* pending record is such a value for this machine.
C14_DerivationNeverFails ==
  /\ \A sources \in SignalSources, uuid \in Uuids :
       LET fp == get_device_fingerprint_from(sources, uuid)
           data == fp.hexdigest.sha256_of
       IN /\ fp.prefix = "sha256:"
          /\ (CpuModelName \in Range(data)) = sources.cpuinfo
          /\ (Range(MacAddresses) \subseteq Range(data)) = sources.ip_link
          /\ (Range(MacAddresses) \cap Range(data) # {}) = sources.ip_link
          /\ (strip(MachineIdFile) \in Range(data)) = sources.machine_id
          /\ (uuid \in Range(data)) = ~sources.machine_id
          /\ data # <<>>
          /\ data[Len(data)] = IF sources.machine_id
                               THEN strip(MachineIdFile) ELSE uuid
  /\ PendingRecordWritten =>
       pending_activation.fingerprint
         \in {get_device_fingerprint_from(hw, uuid) : uuid \in Uuids}

\* A pending record written on a machine that offers no source at all: its
\* fingerprint is the digest over the random identifier alone.
C14_Witness ==
  /\ ~hw.cpuinfo /\ ~hw.ip_link /\ ~hw.machine_id
  /\ PendingRecordWritten
  /\ pending_activation.fingerprint.prefix = "sha256:"
  /\ pending_activation.fingerprint.hexdigest.sha256_of \in {<<u>> : u \in Uuids}

\* C15: atomic artifact visibility: whoever reads supabase.env or
\* pending_activation.json, also after a writer was interrupted in the middle
\* of a write, finds the complete previous or the complete new content, never
\* an empty or cut file.
C15_AtomicVisibility ==
  /\ supabase_env.exists => supabase_env.content # Truncated
  /\ pending_activation.exists => pending_activation # TruncatedPending

\* C16: owner-only permissions in every state: a file that holds a secret or
\* an identity artifact (the handoff token file, supabase.env, device_code,
\* pending_activation.json) never has its content in place while its mode is
\* wider than owner read/write.
C16_OwnerOnlyAlways ==
  /\ (tmp_token.exists /\ tmp_token.content # "")
       => mode.tmp_token = OwnerOnly
  /\ (supabase_env.exists /\ supabase_env.content # Truncated)
       => mode.supabase_env = OwnerOnly
  /\ (device_code_file.exists /\ device_code_file.content # "")
       => mode.device_code_file = OwnerOnly
  /\ PendingRecordWritten => mode.pending_activation = OwnerOnly

\* supabase.env holds a device credential while the device_code file is
\* missing or is not the code that was issued with that credential.
HalfPopulated ==
  /\ Claimed
  /\ \/ ~device_code_file.exists
     \/ <<supabase_env.content, device_code_file.content>> \notin ClaimBodies

\* C17: no half-populated Claimed state after an abort or a persistence
\* error: a guardian_claim.run() that is aborted or hits a file system error
\* leaves either no device credential or the credential together with its
\* device_code file.
C17_NoHalfPopulatedClaim ==
  [][(~HalfPopulated /\ IsClaimRun /\ last'.out = "interrupted")
       => ~HalfPopulated']_vars

\* The parent's bearer token, as handed out and as read back from the handoff
\* file, and the parent's password.
ParentSecrets ==
  ParentTokens \cup {strip(t) : t \in ParentTokens}
    \cup (UiPasswords \ {None}) \cup ({environ.GUARDIAN_TEST_PASSWORD} \ {None})

\* Every value that a file under <root>/etc/guardian holds, the signals under
\* the fingerprint digest included.
InstalledValues ==
  {supabase_env.content, device_code_file.content, pending_activation.email,
   pending_activation.timestamp, device_json.family_id, device_json.child_id,
   device_json.child_name, device_json.parent_email, device_json.registered_at,
   device_json.api_url}
    \cup Range(pending_activation.fingerprint.hexdigest.sha256_of)

C19_NoPendingRecordWhenClaimed == Claimed => ~pending_activation.exists

\* guardian_wifi.run() in the current state, the probe finding no
\* connectivity.
WifiOutcome == guardian_wifi_run(Current, "none")

\* C20: the connectivity probe is informational only: guardian_wifi.run()
\* returns success and leaves the same state whatever the probe observed, and
\* guardian_auth.run() and guardian_claim.run() make the same request
\* decision, return the same outcome and leave the same storage and files
\* whether or not the wifi job ran before them; guardian_network_configured
\* is the only difference.
C20_ProbeInformationalOnly ==
  /\ WifiOutcome.ret = Success
  /\ WifiOutcome.s = [Current EXCEPT !.gs.guardian_network_configured = TRUE]
  /\ \A probe \in Probes : guardian_wifi_run(Current, probe) = WifiOutcome
  /\ \A d \in AuthDraws :
       LET without == AuthOutcome(d)
           with == guardian_auth_run(WifiOutcome.s, d[1], d[2], d[3], d[4])
       IN /\ with.http = without.http
          /\ with.url = without.url
          /\ with.out = without.out
          /\ with.ret = without.ret
          /\ with.s = [without.s EXCEPT !.gs.guardian_network_configured = TRUE]
  /\ \A d \in ClaimDraws :
       LET without == ClaimOutcome(d)
           with == guardian_claim_run(WifiOutcome.s, d[1], d[2], d[3])
       IN /\ with.req = without.req
          /\ with.out = without.out
          /\ with.ret = without.ret
          /\ with.s = [without.s EXCEPT !.gs.guardian_network_configured = TRUE]

\* The wifi job ran in this session and a later claim request reached the
\* backend and bound the device.
C20_Witness ==
  /\ gs.guardian_network_configured
  /\ last.op = "claim" /\ last.out = "status_200"
  /\ Claimed

\* C21: the offline marker and the parent token reflect the most recent
\* authentication only: when the last guardian_auth.run() of the session
\* obtained a token, guardian_offline_mode is not set and the next
\* guardian_claim.run() sends its claim request with that token; a marker left
\* by an earlier attempt does not force the offline branch.
C21_LastAuthenticationDecides ==
  (last.op = "auth" /\ last.out = "authenticated") =>
    /\ ~gs.guardian_offline_mode
    /\ \A d \in ClaimDraws :
         LET c == ClaimOutcome(d)
         IN /\ c.out # "offline"
            /\ c.req.sent
            /\ c.req.bearer = gs.guardian_parent_token

====
